---------------------------- MODULE Spec2Model ----------------------------
(***************************************************************************)
(* Model of src/src/pwr.rs (stm32h7xx-hal, PWR peripheral).                *)
(*                                                                         *)
(* The program part is `constrain`, the supply configuration setters,      *)
(* `vos0` and `freeze`, the latter split at every register access.  The    *)
(* hardware part is the register state freeze reads and writes: PWR.CR3    *)
(* (lower byte written once per power-on reset), PWR.CSR1.ACTVOSRDY,       *)
(* PWR.D3CR (VOS, VOSRDY), RCC.APB4ENR.SYSCFGEN and SYSCFG.PWRCR.ODEN.     *)
(* History variables (log, phase, cr3_pre, ...) record what the program    *)
(* did; they never influence a guard.                                      *)
(***************************************************************************)
EXTENDS Naturals, Sequences, FiniteSets, TLC

VARIABLES
    features,              \* cargo features of the build: "dualcore"/"singlecore", "revision_v"
    \* ---- hardware registers
    cr3,                   \* PWR.CR3 supply bits [sden, ldoen, bypass, sdlevel, scuen]
    cr3_locked,            \* the lower byte of CR3 has been written since the last POR
    actvosrdy,             \* PWR.CSR1.ACTVOSRDY
    d3cr_vos,              \* PWR.D3CR.VOS
    vosrdy,                \* PWR.D3CR.VOSRDY
    vos_pending,           \* a scale/overdrive request the regulator has not yet answered
    syscfgen,              \* RCC.APB4ENR.SYSCFGEN
    oden,                  \* SYSCFG.PWRCR.ODEN
    \* ---- program state
    pwr,                   \* where the PWR peripheral is: "pac", "constrained" (a Pwr value), "consumed"
    supply_configuration,  \* Pwr.supply_configuration
    enable_vos0,           \* Pwr.enable_vos0
    pc,                    \* position of the thread of control
    ret,                   \* the VoltageScale freeze returned, "none" before
    \* ---- history
    log,                   \* register accesses of freeze in this reset cycle, in order
    phase,                 \* voltage scale phase (Run* = PostReset, then Run mode)
    cr3_pre,               \* CR3 when the running freeze started
    locked_pre,            \* cr3_locked when the running freeze started
    written,               \* the value the CR3 modify closure produced
    committed,             \* the strategy whose freeze write took effect in this power cycle
    cr3_writes,            \* write accesses to CR3 issued in this reset cycle
    cr3_changes,           \* writes CR3 accepted in this power cycle
    commits,               \* freeze calls started in this reset cycle
    resets,                \* resets so far (bounded)
    diag,                  \* what the panic of the verify phase reported
    last_setter,           \* the supply configuration setter called last on the Pwr value
    stale_exit,            \* a VOSRDY poll was left while a request was still unanswered
    literal                \* a VoltageScale the caller wrote as an enum variant

hw    == <<cr3, cr3_locked, actvosrdy, d3cr_vos, vosrdy, vos_pending, syscfgen, oden>>
prog  == <<pwr, supply_configuration, enable_vos0, pc, ret>>
hist  == <<log, phase, cr3_pre, locked_pre, written, committed, cr3_writes,
           cr3_changes, commits, resets>>
notes == <<diag, last_setter, stale_exit, literal>>
vars  == <<features, hw, prog, hist, notes>>

\* Bound on the number of resets (system resets and power-on resets) in a run.
MaxResets == 2

\* ------------------------------------------------------------------------
\* Types

\* enum SupplyConfiguration
SupplyConfiguration ==
    {"Default", "LDOSupply", "DirectSMPS", "SMPSFeedsIntoLDO1V8",
     "SMPSFeedsIntoLDO2V5", "Bypass"}

\* enum VoltageScale
VoltageScale == {"Scale0", "Scale1", "Scale2", "Scale3"}

\* The values of the two-bit field CR3.SDLEVEL (freeze writes 1 and 2).
SdLevels == 0 .. 3

\* The values of the supply bits of CR3.
Cr3Values ==
    [sden : BOOLEAN, ldoen : BOOLEAN, bypass : BOOLEAN,
     sdlevel : SdLevels, scuen : BOOLEAN]

\* D3CR.VOS after reset selects Scale 3.
VOS_RESET == 1

\* The value freeze writes to D3CR.VOS (0b11, VOS1).
VOS_SCALE1 == 3

\* ------------------------------------------------------------------------
\* Pure parts of freeze

\* SupplyPattern with the Default arm writing the LDO pattern instead of `w`.
SupplyPatternDefaultWritesLdo(cfg, r) ==
    CASE cfg = "DirectSMPS" -> [r EXCEPT !.sden = TRUE, !.ldoen = FALSE]
      [] cfg = "SMPSFeedsIntoLDO1V8" ->
            [r EXCEPT !.sden = TRUE, !.ldoen = TRUE, !.sdlevel = 1]
      [] cfg = "SMPSFeedsIntoLDO2V5" ->
            [r EXCEPT !.sden = TRUE, !.ldoen = TRUE, !.sdlevel = 2]
      [] cfg = "Bypass" ->
            [r EXCEPT !.sden = FALSE, !.ldoen = FALSE, !.bypass = TRUE]
      [] OTHER -> [r EXCEPT !.sden = FALSE, !.ldoen = TRUE]

\* The closure of cr3.modify on a dual core part: r is the value read.
SupplyPattern(cfg, r) ==
    CASE cfg = "LDOSupply" -> [r EXCEPT !.sden = FALSE, !.ldoen = TRUE]
      [] cfg = "DirectSMPS" -> [r EXCEPT !.sden = TRUE, !.ldoen = FALSE]
      [] cfg = "SMPSFeedsIntoLDO1V8" ->
            [r EXCEPT !.sden = TRUE, !.ldoen = TRUE, !.sdlevel = 1]
      [] cfg = "SMPSFeedsIntoLDO2V5" ->
            [r EXCEPT !.sden = TRUE, !.ldoen = TRUE, !.sdlevel = 2]
      [] cfg = "Bypass" ->
            [r EXCEPT !.sden = FALSE, !.ldoen = FALSE, !.bypass = TRUE]
      [] OTHER -> r

\* The closure of cr3.modify on a single core part.
SingleCorePattern(r) ==
    [r EXCEPT !.scuen = TRUE, !.ldoen = TRUE, !.bypass = FALSE]

\* What the CR3 modify of freeze writes, given the build and the value read.
Cr3Closure(f, cfg, r) ==
    IF "dualcore" \in f THEN SupplyPattern(cfg, r) ELSE SingleCorePattern(r)

\* verify_supply_configuration: TRUE when no assert fails on the value read.
VerifyPasses(cfg, r) ==
    CASE cfg = "LDOSupply" -> ~r.sden /\ r.ldoen
      [] cfg = "DirectSMPS" -> r.sden /\ ~r.ldoen
      [] cfg = "SMPSFeedsIntoLDO1V8" -> r.sden /\ ~r.ldoen /\ r.sdlevel = 1
      [] cfg = "SMPSFeedsIntoLDO2V5" -> r.sden /\ ~r.ldoen /\ r.sdlevel = 2
      [] cfg = "Bypass" -> ~r.sden /\ ~r.ldoen /\ r.bypass
      [] OTHER -> TRUE

\* The first assert of verify_supply_configuration that fails on the value
\* read: the field it reads and its source line ("none", 0 when all pass).
FirstFailingAssert(cfg, r) ==
    CASE cfg = "LDOSupply" ->
            IF r.sden THEN [field |-> "sden", line |-> 163]
            ELSE IF ~r.ldoen THEN [field |-> "ldoen", line |-> 164]
            ELSE [field |-> "none", line |-> 0]
      [] cfg = "DirectSMPS" ->
            IF ~r.sden THEN [field |-> "sden", line |-> 167]
            ELSE IF r.ldoen THEN [field |-> "ldoen", line |-> 168]
            ELSE [field |-> "none", line |-> 0]
      [] cfg = "SMPSFeedsIntoLDO1V8" ->
            IF ~r.sden THEN [field |-> "sden", line |-> 171]
            ELSE IF r.ldoen THEN [field |-> "ldoen", line |-> 172]
            ELSE IF r.sdlevel # 1 THEN [field |-> "sdlevel", line |-> 173]
            ELSE [field |-> "none", line |-> 0]
      [] cfg = "SMPSFeedsIntoLDO2V5" ->
            IF ~r.sden THEN [field |-> "sden", line |-> 176]
            ELSE IF r.ldoen THEN [field |-> "ldoen", line |-> 177]
            ELSE IF r.sdlevel # 2 THEN [field |-> "sdlevel", line |-> 178]
            ELSE [field |-> "none", line |-> 0]
      [] cfg = "Bypass" ->
            IF r.sden THEN [field |-> "sden", line |-> 181]
            ELSE IF r.ldoen THEN [field |-> "ldoen", line |-> 182]
            ELSE IF ~r.bypass THEN [field |-> "bypass", line |-> 183]
            ELSE [field |-> "none", line |-> 0]
      [] OTHER -> [field |-> "none", line |-> 0]

\* No panic was reported.
NoDiag == [text |-> "none", strategy |-> "none", field |-> "none", line |-> 0]

\* A panic message that would name the strategy and the field that disagreed.
VerifyDiagnosticNamesField(cfg, r) ==
    [text |-> "cr3_lower_byte_mismatch", strategy |-> cfg,
     field |-> FirstFailingAssert(cfg, r).field,
     line |-> FirstFailingAssert(cfg, r).line]

\* What a failing assert of verify_supply_configuration reports: the one
\* message `error` every assert shares ("Values in lower byte of PWR.CR3 do
\* not match the configured power mode ..."), which names no strategy and no
\* field, and the source location the assert macro attaches to the panic.
VerifyDiagnostic(cfg, r) ==
    [text |-> "cr3_lower_byte_mismatch", strategy |-> "none",
     field |-> "none", line |-> FirstFailingAssert(cfg, r).line]

\* A verify whose failure would not stop freeze.
AfterVerifyGoesOn(ok) == "poll_actvosrdy"

\* Where freeze goes after verify_supply_configuration: a failed assert panics.
AfterVerify(ok) == IF ok THEN "poll_actvosrdy" ELSE "panicked"

\* The lower byte of CR3 takes a write only when it was not written since POR.
Cr3Accepts(locked) == ~locked

Cr3AfterWrite(locked, old, new) == IF Cr3Accepts(locked) THEN new ELSE old

\* A poll loop written with the opposite polarity: left when the bit reads clear.
PollExitsWhenClear(bit) == ~bit

\* A poll loop that does not wait.
PollExitsAtOnce(bit) == TRUE

\* `while bit_is_clear() {}` is left when the bit reads set.
PollExits(bit) == bit

\* freeze without the call of verify_supply_configuration.
AfterCr3ModifySkipsVerify(f) == "poll_actvosrdy"

\* freeze calling verify_supply_configuration on every build.
AfterCr3ModifyAlwaysVerifies(f) == "verify"

\* Where freeze goes after the CR3 modify: the verification exists on dual core builds.
AfterCr3Modify(f) == IF "dualcore" \in f THEN "verify" ELSE "poll_actvosrdy"

\* The overdrive branch taken whether or not vos0 was called.
OverdriveAlways(f, vos0) == "revision_v" \in f

\* `#[cfg(feature = "revision_v")] if self.enable_vos0`
OverdriveTaken(f, vos0) == "revision_v" \in f /\ vos0

\* The overdrive branch without the SYSCFGEN enable in front of the ODEN write.
AfterScaleReadyNoSyscfgen(f, vos0) ==
    IF OverdriveTaken(f, vos0) THEN "oden" ELSE "main"

\* Where freeze goes once VOSRDY was read set after the VOS write: into the
\* overdrive branch, or back to the caller with Scale1.
AfterScaleReady(f, vos0) ==
    IF OverdriveTaken(f, vos0) THEN "syscfgen" ELSE "main"

\* freeze taking `&self`: the Pwr value would survive the call.
PwrAfterFreezeBorrowed == "constrained"

\* What `freeze(self)` leaves of the Pwr value: it is moved into the call.
PwrAfterFreeze == "consumed"

\* ------------------------------------------------------------------------
\* Initial state: just after a power-on reset

ProgramReset ==
    /\ pwr = "pac"
    /\ supply_configuration = "Default"
    /\ enable_vos0 = FALSE
    /\ pc = "main"
    /\ ret = "none"

\* The reset value of CR3 varies between packages.
Cr3ResetValues(f) ==
    IF "dualcore" \in f
    THEN {r \in Cr3Values : ~r.scuen}
    ELSE {r \in Cr3Values : ~r.sden /\ r.sdlevel = 0}

InitCommon ==
    /\ cr3 \in Cr3ResetValues(features)
    /\ cr3_locked = FALSE
    /\ actvosrdy = FALSE
    /\ d3cr_vos = VOS_RESET
    /\ vosrdy = FALSE
    /\ vos_pending = FALSE
    /\ syscfgen = FALSE
    /\ oden = FALSE
    /\ ProgramReset
    /\ log = << >>
    /\ phase = "PostReset"
    /\ cr3_pre = cr3
    /\ locked_pre = FALSE
    /\ written = cr3
    /\ committed = "none"
    /\ cr3_writes = 0
    /\ cr3_changes = 0
    /\ commits = 0
    /\ resets = 0
    /\ diag = NoDiag
    /\ last_setter = "none"
    /\ stale_exit = FALSE
    /\ literal = "none"

Init ==
    /\ features = {"dualcore", "revision_v"}
    /\ InitCommon

\* ------------------------------------------------------------------------
\* Program

\* PwrExt::constrain
Constrain ==
    /\ pc = "main"
    /\ pwr = "pac"
    /\ pwr' = "constrained"
    /\ supply_configuration' = "Default"
    /\ enable_vos0' = FALSE
    /\ UNCHANGED <<features, notes, hw, pc, ret, hist>>

\* `pub enum VoltageScale`: its variants are public, so the caller can write
\* VoltageScale::Scale0 .. Scale3 without calling freeze.
ConstructVoltageScale ==
    /\ pc = "main"
    /\ literal = "none"
    /\ literal' \in VoltageScale
    /\ UNCHANGED <<features, diag, last_setter, stale_exit, hw, prog, hist>>

\* A setter that builds a fresh Pwr value and so loses the overdrive request.
SupplySetterDropsVos0(config) ==
    /\ pc = "main"
    /\ pwr = "constrained"
    /\ "dualcore" \in features
    /\ supply_configuration' = config
    /\ enable_vos0' = FALSE
    /\ UNCHANGED <<features, diag, stale_exit, literal, hw, pwr, pc, ret, hist>>

\* supply_configuration_setter!: ldo, smps, bypass, smps_1v8_feeds_ldo, smps_2v5_feeds_ldo
SupplySetter(config) ==
    /\ pc = "main"
    /\ pwr = "constrained"
    /\ "dualcore" \in features
    /\ supply_configuration' = config
    /\ UNCHANGED <<features, diag, stale_exit, literal, hw, pwr, enable_vos0,
                   pc, ret, hist>>

ldo                == SupplySetter("LDOSupply") /\ last_setter' = "ldo"
smps               == SupplySetter("DirectSMPS") /\ last_setter' = "smps"
bypass             == SupplySetter("Bypass") /\ last_setter' = "bypass"
smps_1v8_feeds_ldo ==
    SupplySetter("SMPSFeedsIntoLDO1V8") /\ last_setter' = "smps_1v8_feeds_ldo"
smps_2v5_feeds_ldo ==
    SupplySetter("SMPSFeedsIntoLDO2V5") /\ last_setter' = "smps_2v5_feeds_ldo"

\* Pwr::vos0
vos0 ==
    /\ pc = "main"
    /\ pwr = "constrained"
    /\ "revision_v" \in features
    /\ enable_vos0' = TRUE
    /\ UNCHANGED <<features, notes, hw, pwr, supply_configuration, pc, ret, hist>>

\* Pwr::freeze is entered: the Pwr value is moved into the call.
FreezeBegin ==
    /\ pc = "main"
    /\ pwr = "constrained"
    /\ pwr' = PwrAfterFreeze
    /\ pc' = "cr3_modify"
    /\ cr3_pre' = cr3
    /\ locked_pre' = cr3_locked
    /\ commits' = commits + 1
    /\ UNCHANGED <<features, notes, hw, supply_configuration, enable_vos0, ret, log,
                   phase, written, committed, cr3_writes, cr3_changes, resets>>

\* self.rb.cr3.modify(..): one read and one write of CR3, whatever the closure returns.
FreezeCr3Modify ==
    /\ pc = "cr3_modify"
    /\ LET w == Cr3Closure(features, supply_configuration, cr3)
       IN /\ written' = w
          /\ cr3' = Cr3AfterWrite(cr3_locked, cr3, w)
    /\ cr3_changes' = IF Cr3Accepts(cr3_locked) THEN cr3_changes + 1 ELSE cr3_changes
    /\ committed' = IF Cr3Accepts(cr3_locked) THEN supply_configuration ELSE committed
    /\ cr3_locked' = TRUE
    /\ cr3_writes' = cr3_writes + 1
    /\ log' = Append(log, "cr3_modify")
    /\ pc' = AfterCr3Modify(features)
    /\ UNCHANGED <<features, notes, actvosrdy, d3cr_vos, vosrdy, vos_pending, syscfgen,
                   oden, pwr, supply_configuration, enable_vos0, ret, phase,
                   cr3_pre, locked_pre, commits, resets>>

\* self.verify_supply_configuration(): a failing assert panics.
FreezeVerify ==
    /\ pc = "verify"
    /\ pc' = AfterVerify(VerifyPasses(supply_configuration, cr3))
    /\ IF VerifyPasses(supply_configuration, cr3)
       THEN /\ log' = Append(log, "verify_ok")
            /\ diag' = diag
       ELSE /\ log' = Append(log, "verify_panic")
            /\ diag' = VerifyDiagnostic(supply_configuration, cr3)
    /\ UNCHANGED <<features, last_setter, stale_exit, literal, hw, pwr, supply_configuration, enable_vos0, ret,
                   phase, cr3_pre, locked_pre, written, committed, cr3_writes,
                   cr3_changes, commits, resets>>

\* while self.rb.csr1.read().actvosrdy().bit_is_clear() {}
FreezePollActvosrdy ==
    /\ pc = "poll_actvosrdy"
    /\ PollExits(actvosrdy)
    /\ pc' = "vos_write"
    /\ log' = Append(log, IF actvosrdy THEN "actvosrdy_set" ELSE "actvosrdy_clear")
    /\ phase' = "DomainReady"
    /\ UNCHANGED <<features, notes, hw, pwr, supply_configuration, enable_vos0, ret,
                   cr3_pre, locked_pre, written, committed, cr3_writes,
                   cr3_changes, commits, resets>>

\* self.rb.d3cr.write(|w| w.vos().bits(0b11))
FreezeVosWrite ==
    /\ pc = "vos_write"
    /\ d3cr_vos' = VOS_SCALE1
    /\ vos_pending' = (vos_pending \/ d3cr_vos # VOS_SCALE1)
    /\ pc' = "poll_vosrdy"
    /\ log' = Append(log, "vos_write")
    /\ phase' = "ScaleRequested"
    /\ UNCHANGED <<features, notes, cr3, cr3_locked, actvosrdy, vosrdy, syscfgen, oden,
                   pwr, supply_configuration, enable_vos0, ret, cr3_pre,
                   locked_pre, written, committed, cr3_writes, cr3_changes,
                   commits, resets>>

\* while self.rb.d3cr.read().vosrdy().bit_is_clear() {} and then either the
\* overdrive branch is entered or Scale1 is returned.
FreezePollVosrdy ==
    /\ pc = "poll_vosrdy"
    /\ PollExits(vosrdy)
    /\ log' = Append(log, IF vosrdy THEN "vosrdy_set" ELSE "vosrdy_clear")
    /\ phase' = "ScaleReady"
    /\ stale_exit' = (stale_exit \/ vos_pending)
    /\ pc' = AfterScaleReady(features, enable_vos0)
    /\ ret' = IF pc' = "main" THEN "Scale1" ELSE ret
    /\ UNCHANGED <<features, diag, last_setter, literal, hw, pwr, supply_configuration, enable_vos0,
                   cr3_pre, locked_pre, written, committed, cr3_writes,
                   cr3_changes, commits, resets>>

\* (*RCC::ptr()).apb4enr.modify(|_, w| w.syscfgen().enabled())
FreezeSyscfgen ==
    /\ pc = "syscfgen"
    /\ syscfgen' = TRUE
    /\ pc' = "oden"
    /\ log' = Append(log, "syscfgen")
    /\ UNCHANGED <<features, notes, cr3, cr3_locked, actvosrdy, d3cr_vos, vosrdy,
                   vos_pending, oden, pwr, supply_configuration, enable_vos0,
                   ret, phase, cr3_pre, locked_pre, written, committed,
                   cr3_writes, cr3_changes, commits, resets>>

\* (*SYSCFG::ptr()).pwrcr.modify(|_, w| w.oden().set_bit())
FreezeOden ==
    /\ pc = "oden"
    /\ oden' = TRUE
    /\ vos_pending' = (vos_pending \/ ~oden)
    /\ pc' = "poll_vosrdy_od"
    /\ log' = Append(log, "oden")
    /\ phase' = "OverdriveRequested"
    /\ UNCHANGED <<features, notes, cr3, cr3_locked, actvosrdy, d3cr_vos, vosrdy,
                   syscfgen, pwr, supply_configuration, enable_vos0, ret,
                   cr3_pre, locked_pre, written, committed, cr3_writes,
                   cr3_changes, commits, resets>>

\* while self.rb.d3cr.read().vosrdy().bit_is_clear() {}; return VoltageScale::Scale0
FreezePollVosrdyOverdrive ==
    /\ pc = "poll_vosrdy_od"
    /\ PollExits(vosrdy)
    /\ log' = Append(log, IF vosrdy THEN "vosrdy_set" ELSE "vosrdy_clear")
    /\ phase' = "OverdriveReady"
    /\ stale_exit' = (stale_exit \/ vos_pending)
    /\ pc' = "main"
    /\ ret' = "Scale0"
    /\ UNCHANGED <<features, diag, last_setter, literal, hw, pwr, supply_configuration, enable_vos0,
                   cr3_pre, locked_pre, written, committed, cr3_writes,
                   cr3_changes, commits, resets>>

\* ------------------------------------------------------------------------
\* Hardware and environment

\* The supply rail has stabilised: ACTVOSRDY becomes set.
HwActvosrdy ==
    /\ ~actvosrdy
    /\ actvosrdy' = TRUE
    /\ UNCHANGED <<features, notes, cr3, cr3_locked, d3cr_vos, vosrdy, vos_pending,
                   syscfgen, oden, prog, hist>>

\* The regulator starts to follow a scale or overdrive request: VOSRDY drops.
HwVosrdyClear ==
    /\ vos_pending
    /\ vosrdy
    /\ vosrdy' = FALSE
    /\ UNCHANGED <<features, notes, cr3, cr3_locked, actvosrdy, d3cr_vos, vos_pending,
                   syscfgen, oden, prog, hist>>

\* The regulator output has reached the level selected: VOSRDY becomes set.
HwVosrdySet ==
    /\ ~vosrdy
    /\ vosrdy' = TRUE
    /\ vos_pending' = FALSE
    /\ UNCHANGED <<features, notes, cr3, cr3_locked, actvosrdy, d3cr_vos, syscfgen,
                   oden, prog, hist>>

\* Software that ran between the POR and this program wrote the supply
\* configuration (a boot stage): not visible to freeze.
BootStageWrite ==
    /\ pc = "main"
    /\ pwr = "pac"
    /\ Cr3Accepts(cr3_locked)
    /\ \E v \in Cr3ResetValues(features) :
          cr3' = Cr3AfterWrite(cr3_locked, cr3, v)
    /\ cr3_locked' = TRUE
    /\ cr3_changes' = cr3_changes + 1
    /\ cr3_pre' = cr3'
    /\ locked_pre' = TRUE
    /\ written' = cr3'
    /\ UNCHANGED <<features, notes, actvosrdy, d3cr_vos, vosrdy, vos_pending, syscfgen,
                   oden, prog, log, phase, committed, cr3_writes, commits,
                   resets>>

\* What every reset does: the program restarts, and the registers outside the
\* write-once byte of CR3 return to their reset values.
ResetCommon ==
    /\ resets < MaxResets
    /\ resets' = resets + 1
    /\ actvosrdy' = FALSE
    /\ d3cr_vos' = VOS_RESET
    /\ vosrdy' = FALSE
    /\ vos_pending' = FALSE
    /\ syscfgen' = FALSE
    /\ oden' = FALSE
    /\ pwr' = "pac"
    /\ supply_configuration' = "Default"
    /\ enable_vos0' = FALSE
    /\ pc' = "main"
    /\ ret' = "none"
    /\ log' = << >>
    /\ phase' = "PostReset"
    /\ cr3_writes' = 0
    /\ commits' = 0
    /\ diag' = NoDiag
    /\ last_setter' = "none"
    /\ stale_exit' = FALSE
    /\ literal' = "none"
    /\ UNCHANGED features

\* A reset that is not a power-on reset keeps the lower byte of CR3 and its lock.
SystemReset ==
    /\ ResetCommon
    /\ cr3_pre' = cr3
    /\ locked_pre' = cr3_locked
    /\ written' = cr3
    /\ UNCHANGED <<cr3, cr3_locked, committed, cr3_changes>>

\* A power-on reset: CR3 returns to its reset value and can be written again.
PowerOnReset ==
    /\ ResetCommon
    /\ cr3' \in Cr3ResetValues(features)
    /\ cr3_locked' = FALSE
    /\ committed' = "none"
    /\ cr3_changes' = 0
    /\ cr3_pre' = cr3'
    /\ locked_pre' = FALSE
    /\ written' = cr3'

\* ------------------------------------------------------------------------
\* Specifications

Program ==
    \/ Constrain
    \/ ldo
    \/ smps
    \/ bypass
    \/ smps_1v8_feeds_ldo
    \/ smps_2v5_feeds_ldo
    \/ vos0
    \/ FreezeBegin
    \/ FreezeCr3Modify
    \/ FreezeVerify
    \/ FreezePollActvosrdy
    \/ FreezeVosWrite
    \/ FreezePollVosrdy
    \/ FreezeSyscfgen
    \/ FreezeOden
    \/ FreezePollVosrdyOverdrive

Hardware ==
    \/ HwActvosrdy
    \/ HwVosrdyClear
    \/ HwVosrdySet

Next ==
    \/ Program
    \/ ConstructVoltageScale
    \/ Hardware
    \/ BootStageWrite
    \/ SystemReset
    \/ PowerOnReset

Spec == Init /\ [][Next]_vars

\* The single core build: no supply configuration setters and no verify.
InitSingle ==
    /\ features = {"singlecore", "revision_v"}
    /\ InitCommon

SingleNext ==
    \/ Constrain
    \/ vos0
    \/ ConstructVoltageScale
    \/ FreezeBegin
    \/ FreezeCr3Modify
    \/ FreezePollActvosrdy
    \/ FreezeVosWrite
    \/ FreezePollVosrdy
    \/ FreezeSyscfgen
    \/ FreezeOden
    \/ FreezePollVosrdyOverdrive
    \/ Hardware
    \/ BootStageWrite
    \/ SystemReset
    \/ PowerOnReset

SpecSingle == InitSingle /\ [][SingleNext]_vars

\* The steps of freeze after its entry: one sequential thread runs them.
FreezeStep ==
    \/ FreezeCr3Modify
    \/ FreezeVerify
    \/ FreezePollActvosrdy
    \/ FreezeVosWrite
    \/ FreezePollVosrdy
    \/ FreezeSyscfgen
    \/ FreezeOden
    \/ FreezePollVosrdyOverdrive

\* One reset cycle: the program and the hardware, with no reset.
CycleNext ==
    \/ Program
    \/ ConstructVoltageScale
    \/ Hardware
    \/ BootStageWrite

\* One reset cycle with the thread of freeze running on, and the hardware
\* eventually setting the ready bits it was asked for.
FairSpec ==
    /\ Init
    /\ [][CycleNext]_vars
    /\ WF_vars(FreezeStep)
    /\ WF_vars(HwActvosrdy)
    /\ WF_vars(HwVosrdySet)

TypeOK ==
    /\ cr3 \in Cr3Values
    /\ supply_configuration \in SupplyConfiguration
    /\ ret \in VoltageScale \cup {"none"}
    /\ resets \in 0 .. MaxResets

\* ------------------------------------------------------------------------
\* Vocabulary of the properties

InLog(e) == \E i \in DOMAIN log : log[i] = e

\* Position of the first e in the log, 0 when there is none.
FirstPos(e) ==
    IF InLog(e) THEN CHOOSE i \in DOMAIN log :
                        log[i] = e /\ \A j \in 1 .. (i - 1) : log[j] # e
    ELSE 0

\* The verify phase of the commit of this reset cycle has run.
VerifyRan == InLog("verify_ok") \/ InLog("verify_panic")

\* The fields of CR3 the supply configuration consists of.
SupplyBits(r) == <<r.sden, r.ldoen, r.bypass, r.sdlevel>>

PollEvents == {"actvosrdy_set", "actvosrdy_clear", "vosrdy_set", "vosrdy_clear"}

NoPollInLog == \A i \in DOMAIN log : log[i] \notin PollEvents

\* ------------------------------------------------------------------------
\* C1: for every supply strategy other than Default, a commit on hardware
\* whose CR3 supply bits were not yet written in this power cycle passes the
\* verify phase without halting, and CR3 then reads back exactly the pattern
\* the write phase wrote.
C1_VerifyPassesOnFreshHardware ==
    (VerifyRan /\ supply_configuration # "Default" /\ ~locked_pre)
        => /\ InLog("verify_ok")
           /\ pc # "panicked"
           /\ SupplyBits(cr3) = SupplyBits(written)

\* ------------------------------------------------------------------------
\* C3: when the commit starts with CR3 locked on a pattern that differs from
\* the one the requested strategy writes, the verify phase halts: no
\* readiness poll follows and no voltage scale is returned.
C3_LockedMismatchHalts ==
    (/\ VerifyRan
     /\ supply_configuration # "Default"
     /\ locked_pre
     /\ SupplyBits(cr3_pre) # SupplyBits(written))
        => /\ InLog("verify_panic")
           /\ pc = "panicked"
           /\ NoPollInLog
           /\ ret = "none"

C5_DefaultTouchesNothing ==
    (supply_configuration = "Default" /\ InLog("cr3_modify"))
        => /\ cr3_writes = 0
           /\ cr3 = cr3_pre
           /\ cr3_locked = locked_pre
           /\ ~InLog("verify_panic")

\* C5 as amended: a commit with the Default strategy changes no supply bit of
\* CR3 and never halts in the verify phase, whatever CR3 holds; the modify
\* still writes the unchanged value back, which uses up the write-once lock.
C5_DefaultKeepsSupplyBits ==
    (supply_configuration = "Default" /\ InLog("cr3_modify"))
        => /\ cr3 = cr3_pre
           /\ written = cr3_pre
           /\ cr3_writes = 1
           /\ cr3_locked
           /\ ~InLog("verify_panic")
           /\ pc # "panicked"

\* A Default commit that started on unlocked hardware has returned.
C5_Witness ==
    /\ supply_configuration = "Default"
    /\ ~locked_pre
    /\ InLog("verify_ok")
    /\ ret = "Scale1"

\* ------------------------------------------------------------------------
\* C2: a commit that returns yields Scale0 exactly when overdrive was
\* requested with vos0 and Scale1 otherwise, whatever the supply strategy;
\* it never yields Scale2 or Scale3.
C2_ScaleFollowsOverdrive ==
    ret # "none"
        => /\ ret = (IF enable_vos0 THEN "Scale0" ELSE "Scale1")
           /\ ret \notin {"Scale2", "Scale3"}

\* A commit with a supply strategy and overdrive returned Scale0.
C2_Witness ==
    /\ ret = "Scale0"
    /\ supply_configuration = "DirectSMPS"
    /\ enable_vos0

\* ------------------------------------------------------------------------
\* C6: within one commit the voltage scale phases are visited in the order
\* PostReset, DomainReady, ScaleRequested, ScaleReady, OverdriveRequested,
\* OverdriveReady, none skipped and none reversed; VOS is not written before
\* ACTVOSRDY was read set, and no poll is left on a bit that reads clear.
PhaseRank(p) ==
    CASE p = "PostReset" -> 0
      [] p = "DomainReady" -> 1
      [] p = "ScaleRequested" -> 2
      [] p = "ScaleReady" -> 3
      [] p = "OverdriveRequested" -> 4
      [] p = "OverdriveReady" -> 5

PhaseForward ==
    phase' # phase
        => \/ PhaseRank(phase') = PhaseRank(phase) + 1
           \/ resets' = resets + 1 /\ phase' = "PostReset"

PollsObserved ==
    /\ ~InLog("actvosrdy_clear")
    /\ ~InLog("vosrdy_clear")
    /\ PhaseRank(phase) >= 1 => InLog("actvosrdy_set") /\ actvosrdy
    /\ PhaseRank(phase) >= 3 => InLog("vosrdy_set")
    /\ (InLog("vos_write") \/ d3cr_vos = VOS_SCALE1)
          => /\ InLog("actvosrdy_set")
             /\ FirstPos("actvosrdy_set") < FirstPos("vos_write")
    /\ InLog("vosrdy_set") => FirstPos("vos_write") < FirstPos("vosrdy_set")

C6_PhasesInOrder == [][PhaseForward]_vars /\ []PollsObserved

\* A commit went through all six phases.
C6_Witness ==
    /\ phase = "OverdriveReady"
    /\ ret = "Scale0"
    /\ Len(log) = 8

InCommit == pc \notin {"main", "panicked"}

WaitingInPoll ==
    \/ pc = "poll_actvosrdy" /\ ~actvosrdy
    \/ pc \in {"poll_vosrdy", "poll_vosrdy_od"} /\ ~vosrdy

OutcomesOfCommit ==
    /\ (InCommit /\ ~WaitingInPoll) => ENABLED FreezeStep
    /\ pc = "panicked" => log = <<"cr3_modify", "verify_panic">> /\ ret = "none"
    /\ (pc = "main" /\ commits = 1) => ret \in VoltageScale

C9_CommitFinishes == []OutcomesOfCommit /\ (InCommit ~> ~InCommit)

\* A commit went through its three polls and has returned.
C9_Witness ==
    /\ commits = 1
    /\ pc = "main"
    /\ ret = "Scale0"
    /\ log[3] = "actvosrdy_set"
    /\ log[5] = "vosrdy_set"
    /\ log[8] = "vosrdy_set"

\* ------------------------------------------------------------------------
\* C10: with overdrive requested, SYSCFGEN is enabled before ODEN is set,
\* ODEN is set only after VOSRDY was read set following the VOS write, and
\* Scale0 is returned only after VOSRDY was polled again after the ODEN
\* write; without overdrive, SYSCFGEN and ODEN are left as they were.
OverdriveOrder ==
    /\ oden => syscfgen
    /\ InLog("oden")
          => /\ enable_vos0
             /\ oden
             /\ \E i, j, k, l \in DOMAIN log :
                   /\ i < j /\ j < k /\ k < l
                   /\ log[i] = "vos_write"
                   /\ log[j] = "vosrdy_set"
                   /\ log[k] = "syscfgen"
                   /\ log[l] = "oden"
    /\ ret = "Scale0"
          => \E l, m \in DOMAIN log :
                l < m /\ log[l] = "oden" /\ log[m] = "vosrdy_set"

NoOverdriveFrame ==
    (~enable_vos0 /\ resets' = resets) => UNCHANGED <<syscfgen, oden>>

C10_OverdriveSequence == []OverdriveOrder /\ [][NoOverdriveFrame]_vars

\* An overdrive commit returned Scale0 with both bits set.
C10_Witness ==
    /\ ret = "Scale0"
    /\ syscfgen
    /\ oden
    /\ log[Len(log)] = "vosrdy_set"

\* ------------------------------------------------------------------------
\* C11 as claimed: on a fatal verify-phase mismatch the diagnostic names the
\* requested strategy and the CR3 field (SDEN, LDOEN, BYPASS or SDLEVEL) that
\* disagreed, so that mismatches on different fields or for different
\* strategies are told apart by it.
C11_DiagnosticNamesField ==
    InLog("verify_panic")
        => /\ diag.strategy = supply_configuration
           /\ diag.field = FirstFailingAssert(supply_configuration, cr3).field
           /\ diag.field \in {"sden", "ldoen", "bypass", "sdlevel"}

\* C11 as amended: on a fatal verify-phase mismatch the diagnostic is the one
\* fixed message that the lower byte of PWR.CR3 does not match the configured
\* power mode; it names neither the strategy nor the field, so mismatches on
\* different fields or for different strategies carry the same message and
\* differ only in the source line of the assert that failed.
C11_OneFixedMessage ==
    /\ InLog("verify_panic")
          => /\ diag.text = "cr3_lower_byte_mismatch"
             /\ diag.strategy = "none"
             /\ diag.field = "none"
             /\ diag.line = FirstFailingAssert(supply_configuration, cr3).line
             /\ diag.line # 0
    /\ ~InLog("verify_panic") => diag = NoDiag

\* A commit halted on the SDLEVEL assert of the 1.8 V feeds-LDO strategy.
C11_Witness ==
    /\ pc = "panicked"
    /\ supply_configuration = "SMPSFeedsIntoLDO1V8"
    /\ FirstFailingAssert(supply_configuration, cr3).field = "sdlevel"
    /\ diag.text = "cr3_lower_byte_mismatch"

\* ------------------------------------------------------------------------
\* C12: the selector operations (ldo, smps, bypass, smps_1v8_feeds_ldo,
\* smps_2v5_feeds_ldo, vos0) touch no hardware register and cannot fail; a
\* strategy setter replaces the whole strategy by the one it names and leaves
\* the overdrive flag alone, so the setter called last decides the pattern
\* freeze writes; vos0 sets the overdrive flag and leaves the strategy alone.
StrategyNamed(setter) ==
    CASE setter = "ldo" -> "LDOSupply"
      [] setter = "smps" -> "DirectSMPS"
      [] setter = "bypass" -> "Bypass"
      [] setter = "smps_1v8_feeds_ldo" -> "SMPSFeedsIntoLDO1V8"
      [] setter = "smps_2v5_feeds_ldo" -> "SMPSFeedsIntoLDO2V5"
      [] OTHER -> "Default"

\* A step of the caller on the Pwr value that is neither constrain nor freeze.
SelectorStep ==
    /\ pc = "main" /\ pc' = "main"
    /\ pwr = "constrained" /\ pwr' = "constrained"
    /\ \/ supply_configuration' # supply_configuration
       \/ enable_vos0' # enable_vos0
       \/ last_setter' # last_setter

SelectorFrame ==
    SelectorStep
        => /\ UNCHANGED <<hw, ret, log, diag, cr3_writes, commits>>
           /\ last_setter' # last_setter
                 => /\ enable_vos0' = enable_vos0
                    /\ supply_configuration' = StrategyNamed(last_setter')
           /\ enable_vos0' # enable_vos0
                 => /\ enable_vos0'
                    /\ UNCHANGED <<supply_configuration, last_setter>>

SelectorDecides ==
    /\ pwr # "pac" => supply_configuration = StrategyNamed(last_setter)
    /\ InLog("cr3_modify")
          => written = SupplyPattern(StrategyNamed(last_setter), cr3_pre)
    /\ (enable_vos0 /\ ret # "none") => ret = "Scale0"

C12_SelectorsArePure == [][SelectorFrame]_vars /\ []SelectorDecides

\* bypass was the setter called last on a Pwr value with overdrive requested,
\* and freeze wrote the bypass pattern to a CR3 that took the write.
C12_Witness ==
    /\ last_setter = "bypass"
    /\ enable_vos0
    /\ InLog("cr3_modify")
    /\ ~locked_pre
    /\ cr3.bypass /\ ~cr3.sden /\ ~cr3.ldoen

\* ------------------------------------------------------------------------
\* C13: a VoltageScale comes only from a freeze that ran to completion: no
\* other operation of the public interface yields one, so whoever holds one
\* knows that the write, the verify, the domain-ready wait and the scale-up
\* have all been done.
C13_ScaleOnlyFromFreeze ==
    (ret # "none" \/ literal # "none")
        => /\ InLog("cr3_modify")
           /\ InLog("verify_ok")
           /\ InLog("actvosrdy_set")
           /\ InLog("vos_write")
           /\ InLog("vosrdy_set")
           /\ pc = "main"

\* ------------------------------------------------------------------------
\* C14: when the verify phase halts, the commit touches no hardware any more:
\* VOS is not written, SYSCFGEN and ODEN are not touched, the CR3 write is not
\* repeated and no voltage scale is returned; the voltage scale state is what
\* it was before the commit.
HaltedState ==
    InLog("verify_panic")
        => /\ pc = "panicked"
           /\ log = <<"cr3_modify", "verify_panic">>
           /\ d3cr_vos = VOS_RESET
           /\ ~vos_pending
           /\ ~syscfgen
           /\ ~oden
           /\ cr3_writes = 1
           /\ ret = "none"
           /\ phase = "PostReset"

HaltedFrame ==
    (pc = "panicked" /\ resets' = resets)
        => UNCHANGED <<cr3, cr3_locked, d3cr_vos, vos_pending, syscfgen, oden,
                       pc, ret, log, phase, cr3_writes, commits>>

C14_HaltStopsEverything == []HaltedState /\ [][HaltedFrame]_vars

\* An overdrive commit halted, and stays halted with both ready bits set.
C14_Witness ==
    /\ pc = "panicked"
    /\ enable_vos0
    /\ actvosrdy
    /\ vosrdy

\* ------------------------------------------------------------------------
\* C15: with a regulator that answers a request some steps later (VOSRDY is
\* cleared and then set again), a commit that returns has seen each request
\* answered: no poll was left on the VOSRDY value of the step before.
C15_NoStalePollExit ==
    ret # "none" => ~stale_exit

\* ------------------------------------------------------------------------
\* C16: on the single core build freeze writes the one pattern SCUEN set,
\* LDOEN set, BYPASS clear to CR3 and verifies nothing, so it never halts: a
\* commit returns a voltage scale or waits in a poll, also when the write-once
\* bits hold another pattern.
C16_SingleCoreNeverHalts ==
    /\ pc \notin {"verify", "panicked"}
    /\ ~VerifyRan
    /\ diag = NoDiag
    /\ InLog("cr3_modify")
          => /\ written = [cr3_pre EXCEPT !.scuen = TRUE, !.ldoen = TRUE,
                                          !.bypass = FALSE]
             /\ ~locked_pre => cr3 = written
             /\ locked_pre => cr3 = cr3_pre
    /\ (InCommit /\ ~WaitingInPoll) => ENABLED FreezeStep
    /\ (pc = "main" /\ commits = 1) => ret \in {"Scale0", "Scale1"}

\* A single core commit returned although the locked CR3 holds another
\* pattern than the one it wrote.
C16_Witness ==
    /\ "singlecore" \in features
    /\ locked_pre
    /\ cr3.bypass
    /\ ~cr3.scuen
    /\ written # cr3
    /\ ret = "Scale1"

====
